---------------------------- MODULE Spec2Model ----------------------------
(***************************************************************************)
(* Down-sampling of an ordered 2-D series: the static variant lttb         *)
(* (src/down_sample/lttb.py) and the dynamic variant ltd                   *)
(* (src/down_sample/ltd.py).                                               *)
(*                                                                         *)
(* One behaviour is one call.  Init draws the call's arguments (data,      *)
(* n_out) and the entry point (fn); the actions are the steps of the call: *)
(* validation, the static split, one action per pass of the refinement     *)
(* loop of _split_data, one action per iteration of the selection loop,    *)
(* and the return.  A Python exception ends the call with its kind in      *)
(* result.                                                                 *)
(*                                                                         *)
(* Conventions.  A row of data is a tuple <<x, y>> (or <<x, y, z>> for a   *)
(* 3-column array).  The code's indices are 0-based and are kept as they   *)
(* are: At(s, k) is the code's s[k].  The loop variable i and the indices  *)
(* max_index, min_index hold the code's values.  sse_list is the score     *)
(* list handed to _find_max_bin where that function is checked on its own  *)
(* (SpecFind); a pass of the refinement loop draws its score list and      *)
(* keeps the split and merge targets it yields.                            *)
(***************************************************************************)
EXTENDS Integers, Sequences, FiniteSets, TLC

VARIABLES fn, data, n_out, pc, result, data_bins, sse_list, curr_iteration,
          max_index, min_index, out, i

vars == <<fn, data, n_out, pc, result, data_bins, sse_list, curr_iteration,
          max_index, min_index, out, i>>

(***************************************************************************)
(* Bounds of the model.                                                    *)
(***************************************************************************)
\* Longest series of the exhaustively enumerated small inputs.
MaxLen == 5
\* Largest y value of the small inputs (y ranges over 0..MaxY).
MaxY == 1
\* Largest n_out of the large inputs (those long enough to be refined).
MaxBigOut == 5
\* Largest number of refinement passes a large input asks for.
MaxIter == 1
\* Number of interior positions at which a large input may carry a spike.
Slots == 4
\* Fit-error scores range over 0..MaxScore.
MaxScore == 2
\* Longest bucket list, and longest bucket, of the inputs of _find_max_bin
\* when it is checked on its own (SpecFind).
MaxBins == 3
MaxBinLen == 2

(***************************************************************************)
(* Program constants.                                                      *)
(***************************************************************************)
\* ltd.py:22  iteration_num = int(len(data)/(n_out*10))
IterDivisor == 10
\* lttb.py:35, ltd.py:119  data.shape[1] != 2
NCols == 2
\* lttb.py:47, ltd.py:131  n_out < 3
MinOut == 3
\* Marks "no value yet" for max_index, min_index (the code's locals are
\* unbound until _resize_bins runs).
None == 0 - 1

(***************************************************************************)
(* Python / numpy primitives.                                              *)
(***************************************************************************)
\* s[k], 0-based.
At(s, k) == s[k + 1]

\* s[k] for a negative k (Python counts from the end).
NegAt(s, k) == s[Len(s) + k + 1]

\* s with s[k] = v, 0-based.
Put(s, k, v) == [s EXCEPT ![k + 1] = v]

Abs(a) == IF a < 0 THEN -a ELSE a

Min2(a, b) == IF a <= b THEN a ELSE b

\* A function on 1..n as the array (tuple) of its values: the same value,
\* computed once instead of at every use.
Array(f) == SubSeq(f, 1, Len(f))

\* column c (0-based) of a 2-D array: data[:, c]
Column(d, c) == Array([k \in 1..Len(d) |-> At(d[k], c)])

\* the sum of s[a..b] (1-based, inclusive), by halves
RECURSIVE SumRange(_, _, _)
SumRange(s, a, b) ==
    IF a > b THEN 0
    ELSE IF a = b THEN s[a]
    ELSE SumRange(s, a, (a + b) \div 2) + SumRange(s, (a + b) \div 2 + 1, b)

SumSeq(s) == SumRange(s, 1, Len(s))

\* np.sort of a 1-D array: its values in ascending order.  Element j goes to
\* the position that counts the smaller values and the equal values before
\* it.
np_sort(s) ==
    LET pos == Array([j \in 1..Len(s) |->
                   Cardinality({m \in 1..Len(s) :
                       s[m] < s[j] \/ (s[m] = s[j] /\ m < j)}) + 1])
        from == Array([k \in 1..Len(s) |-> CHOOSE j \in 1..Len(s) : pos[j] = k])
    IN  Array([k \in 1..Len(s) |-> s[from[k]]])

\* the largest / smallest of s[a..b] (1-based, inclusive), by halves
RECURSIVE MaxRange(_, _, _)
MaxRange(s, a, b) ==
    IF a = b THEN s[a]
    ELSE LET l == MaxRange(s, a, (a + b) \div 2)
             r == MaxRange(s, (a + b) \div 2 + 1, b)
         IN  IF l >= r THEN l ELSE r

RECURSIVE MinRange(_, _, _)
MinRange(s, a, b) ==
    IF a = b THEN s[a]
    ELSE LET l == MinRange(s, a, (a + b) \div 2)
             r == MinRange(s, (a + b) \div 2 + 1, b)
         IN  IF l <= r THEN l ELSE r

\* np.argmax / np.argmin of a non-empty 1-D array: the FIRST index (0-based)
\* holding the largest / smallest value
np_argmax(s) ==
    LET v == s
        top == MaxRange(v, 1, Len(v))
    IN  CHOOSE k \in 0..(Len(v) - 1) :
            At(v, k) = top /\ \A j \in 0..(k - 1) : At(v, j) # top

np_argmin(s) ==
    LET v == s
        bottom == MinRange(v, 1, Len(v))
    IN  CHOOSE k \in 0..(Len(v) - 1) :
            At(v, k) = bottom /\ \A j \in 0..(k - 1) : At(v, j) # bottom

\* np.array_split(ary, n): n contiguous sections, the first len(ary) % n of
\* them one element longer than the others
array_split(ary, n) ==
    LET each == Len(ary) \div n
        extras == Len(ary) % n
        start(k) == k * each + Min2(k, extras)
    IN  Array([k \in 1..n |-> SubSeq(ary, start(k - 1) + 1, start(k))])

\* next_bin.mean(axis=0), kept as the exact fraction (sx / n, sy / n)
mean(next_bin) ==
    [sx |-> SumSeq(Column(next_bin, 0)),
     sy |-> SumSeq(Column(next_bin, 1)),
     n  |-> Len(next_bin)]

\* p in this_bin_lists: list membership, by value
InList(p, this_bin) == \E k \in 1..Len(this_bin) : this_bin[k] = p

(***************************************************************************)
(* lttb.py                                                                 *)
(***************************************************************************)
\* The areas of the triangles (pre_point, b, next_point) for b in this_bin.
\* next_point is the fraction (sx / n, sy / n); every area is returned
\* multiplied by 2 * n > 0, the same factor for the whole bin, which keeps
\* the areas' order and ties.
lttb_area_of_triangles(this_bin, pre_point, next_point) ==
    Array([k \in 1..Len(this_bin) |->
        LET bin_pre_y == At(this_bin[k], 1) - At(pre_point, 1)
            pre_bin_x == At(pre_point, 0) - At(this_bin[k], 0)
        IN  Abs((next_point.n * At(pre_point, 0) - next_point.sx) * bin_pre_y
                - pre_bin_x * (next_point.sy - next_point.n * At(pre_point, 1)))])

\* lttb_validate with the x column required to be strictly increasing.
lttb_validate_strict(d, n) ==
    IF Len(d[1]) # NCols THEN "ShapeMismatch"
    ELSE IF \E k \in 1..(Len(d) - 1) : At(d[k], 0) >= At(d[k + 1], 0)
         THEN "NotSorted"
    ELSE IF n > Len(d) THEN "OutOfRange"
    ELSE IF n = Len(d) THEN "Identity"
    ELSE IF n < MinOut THEN "TooFew"
    ELSE "Valid"

\* The validation of lttb: the exception raised, "Identity" for the
\* n_out == len(data) return, or "Valid".
lttb_validate(d, n) ==
    IF Len(d[1]) # NCols THEN "ShapeMismatch"
    ELSE IF LET x == Column(d, 0)
                sorted == np_sort(x)
            IN  \E k \in 1..Len(d) : x[k] # sorted[k]
         THEN "NotSorted"
    ELSE IF n > Len(d) THEN "OutOfRange"
    ELSE IF n = Len(d) THEN "Identity"
    ELSE IF n < MinOut THEN "TooFew"
    ELSE "Valid"

\* data_bins = np.array_split(data[1: len(data) - 1], n_bins)
lttb_split(d, n) == array_split(SubSeq(d, 2, Len(d) - 1), n - 2)

\* out = zeros((n_out, 2)); out[0] = data[0]; out[-1] = data[-1]
lttb_prepare_out(d, n) ==
    Put(Put(Array([k \in 1..n |-> <<0, 0>>]), 0, At(d, 0)), n - 1, At(d, Len(d) - 1))

lttb_max_point(d) == At(d, np_argmax(Column(d, 1)))

lttb_min_point(d) == At(d, np_argmin(Column(d, 1)))

\* One iteration of the selection loop: out after the body has run for
\* bucket j.
lttb_iter(d, n, bins, o, j) ==
    LET this_bin == At(bins, j)
        n_bins == n - 2
        max_point == lttb_max_point(d)
        min_point == lttb_min_point(d)
    IN  IF InList(max_point, this_bin)
            THEN Put(o, j + 1, max_point)
        ELSE IF InList(min_point, this_bin)
            THEN Put(o, j + 1, min_point)
        ELSE LET next_bin == IF j < n_bins - 1 THEN At(bins, j + 1)
                             ELSE SubSeq(d, Len(d), Len(d))
                 pre_point == At(o, j)
                 next_point == mean(next_bin)
                 areas == lttb_area_of_triangles(this_bin, pre_point, next_point)
             IN  Put(o, j + 1, At(this_bin, np_argmax(areas)))

\* The selection loop from iteration j on.
RECURSIVE lttb_loop(_, _, _, _, _)
lttb_loop(d, n, bins, o, j) ==
    IF j >= Len(bins) THEN o
    ELSE lttb_loop(d, n, bins, lttb_iter(d, n, bins, o, j), j + 1)

\* What lttb(data, n_out) returns for a valid call with n_out < len(data).
lttb_result(d, n) == lttb_loop(d, n, lttb_split(d, n), lttb_prepare_out(d, n), 0)

(***************************************************************************)
(* ltd.py                                                                  *)
(***************************************************************************)
\* As lttb_area_of_triangles: ltd.py carries its own copy.
ltd_area_of_triangles(this_bin, pre_point, next_point) ==
    Array([k \in 1..Len(this_bin) |->
        LET bin_pre_y == At(this_bin[k], 1) - At(pre_point, 1)
            pre_bin_x == At(pre_point, 0) - At(this_bin[k], 0)
        IN  Abs((next_point.n * At(pre_point, 0) - next_point.sx) * bin_pre_y
                - pre_bin_x * (next_point.sy - next_point.n * At(pre_point, 1)))])

\* The validation of ltd: the exception raised, "Identity" for the
\* n_out == len(data) return, or "Valid".
ltd_validate(d, n) ==
    IF Len(d[1]) # NCols THEN "ShapeMismatch"
    ELSE IF LET x == Column(d, 0)
                sorted == np_sort(x)
            IN  \E k \in 1..Len(d) : x[k] # sorted[k]
         THEN "NotSorted"
    ELSE IF n > Len(d) THEN "OutOfRange"
    ELSE IF n = Len(d) THEN "Identity"
    ELSE IF n < MinOut THEN "TooFew"
    ELSE "Valid"

\* iteration_num with the quotient rounded to the nearest pass instead of
\* truncated: a series one row short of 10 * n_out already gets a pass.
iteration_num_rounded(d, n) == (Len(d) + 1) \div (n * IterDivisor)

\* iteration_num = int(len(data)/(n_out*10))
iteration_num(d, n) == Len(d) \div (n * IterDivisor)

\* data_bins = np.array_split(data[1: len(data) - 1], n_bins)
ltd_split(d, n) == array_split(SubSeq(d, 2, Len(d) - 1), n - 2)

\* Whether iteration j of the scoring loop of _split_data raises IndexError:
\* data_bins[i+1] of a one-bucket list, next_bin[0] or pre_bin[-1] of an
\* empty bucket.
ScoreIndexError(bins, j) ==
    IF j = 0
        THEN Len(bins) = 1 \/ Len(At(bins, 1)) = 0
    ELSE IF j = Len(bins) - 1
        THEN Len(At(bins, j - 1)) = 0
    ELSE Len(At(bins, j - 1)) = 0 \/ Len(At(bins, j + 1)) = 0

\* this_bin of iteration j of the scoring loop: the bucket between its two
\* boundary neighbours (only read where ScoreIndexError is false).
ScoreBin(d, bins, j) ==
    LET pre_point == IF j = 0 THEN At(d, 0) ELSE NegAt(At(bins, j - 1), -1)
        next_point == IF j # 0 /\ j = Len(bins) - 1 THEN NegAt(d, -1)
                      ELSE At(At(bins, j + 1), 0)
    IN  <<pre_point>> \o At(bins, j) \o <<next_point>>

\* linregress has no line to fit when all x values are identical: depending
\* on the scipy release it raises ValueError or yields a score that is not a
\* number.  Both outcomes are possible for such a bin.
FitDegenerate(d, bins, j) ==
    \A k \in 1..Len(ScoreBin(d, bins, j)) :
        At(ScoreBin(d, bins, j)[k], 0) = At(ScoreBin(d, bins, j)[1], 0)

\* The first iteration of the scoring loop that raises IndexError
\* (len(data_bins) when none does).
FirstIndexError(bins) ==
    CHOOSE j \in 0..Len(bins) :
        /\ j < Len(bins) => ScoreIndexError(bins, j)
        /\ \A k \in 0..(j - 1) : ~ScoreIndexError(bins, k)

\* The exceptions the scoring loop (ltd.py 28-45) can end with; empty when it
\* must run to its end.
ScoreErrors(d, bins) ==
    (IF FirstIndexError(bins) < Len(bins) THEN {"IndexError"} ELSE {})
    \cup (IF \E j \in 0..(FirstIndexError(bins) - 1) : FitDegenerate(d, bins, j)
          THEN {"ValueError"} ELSE {})

\* The score lists the scoring loop can build.  linregress(...).stderr is a
\* floating-point value computed by scipy; the code uses only the order of
\* the scores and of the sums of adjacent scores, so a score is a number in
\* 0..MaxScore and every score list is possible.
ScoreLists(bins) ==
    IF FirstIndexError(bins) < Len(bins) THEN {}
    ELSE [1..Len(bins) -> 0..MaxScore]

\* The ways to put the indices in left in ascending order of their scores.
RECURSIVE SortingOrders(_, _)
SortingOrders(s, left) ==
    IF left = {} THEN {<<>>}
    ELSE LET least == {k \in left : \A j \in left : At(s, k) <= At(s, j)}
         IN  UNION {{<<k>> \o p : p \in SortingOrders(s, left \ {k})} : k \in least}

\* np.argsort(sse_list): the index sequences (0-based) that sort it.  The
\* order of equal scores is not specified (the default sort is not stable),
\* so every sorting permutation is possible.
np_argsort(s) == SortingOrders(s, 0..(Len(s) - 1))

\* The loop of _find_max_bin over i = -1, -2, ..., -len(sort_sse), for one
\* sort_sse: the first bucket of at least two points; after the loop, i is
\* left at -len(sort_sse).
RECURSIVE find_max_loop(_, _, _)
find_max_loop(bins, sort_sse, k) ==
    IF k < -Len(sort_sse) THEN NegAt(sort_sse, -Len(sort_sse))
    ELSE IF Len(At(bins, NegAt(sort_sse, k))) >= 2 THEN NegAt(sort_sse, k)
    ELSE find_max_loop(bins, sort_sse, k - 1)

\* _find_max_bin(data_bins, sse_list): the indices it can return (one per
\* order np.argsort can give to equal scores).
_find_max_bin(bins, sse) ==
    {find_max_loop(bins, sort_sse, -1) : sort_sse \in np_argsort(sse)}

\* _find_min_bin(sse_list), for a list of at least two scores:
\* sum_pairs.index(min(sum_pairs)), the first pair of least sum.
_find_min_bin(sse) ==
    LET sum_pairs == Array([k \in 1..(Len(sse) - 1) |-> sse[k] + sse[k + 1]])
    IN  np_argmin(sum_pairs)

\* The loop of _resize_bins from iteration j on, resize_bins being acc.
RECURSIVE resize_loop(_, _, _, _, _)
resize_loop(bins, mx, mn, j, acc) ==
    IF j >= Len(bins) THEN acc
    ELSE IF j = mx
        THEN resize_loop(bins, mx, mn, j + 1, acc \o array_split(At(bins, j), 2))
    ELSE IF j = mn
        THEN resize_loop(bins, mx, mn, j + 1,
                         Append(acc, At(bins, j) \o At(bins, j + 1)))
    ELSE IF j = mn + 1
        THEN resize_loop(bins, mx, mn, j + 1, acc)
    ELSE resize_loop(bins, mx, mn, j + 1, Append(acc, At(bins, j)))

\* ltd.py 83-84: the pairs <<max_index, min_index>> that _resize_bins can
\* compute for the buckets, over every score list and every order np.argsort
\* can give to equal scores.
SplitMergeTargets(bins) ==
    UNION {{<<mx, _find_min_bin(sse)>> : mx \in _find_max_bin(bins, sse)} :
           sse \in ScoreLists(bins)}

\* _resize_bins, ltd.py 82 and 86-95: the buckets it returns once max_index
\* and min_index are computed.
_resize_bins(bins, mx, mn) == resize_loop(bins, mx, mn, 0, <<>>)

\* out = zeros((n_out, 2)); out[0] = data[0]; out[-1] = data[-1]
ltd_prepare_out(d, n) ==
    Put(Put(Array([k \in 1..n |-> <<0, 0>>]), 0, At(d, 0)), n - 1, At(d, Len(d) - 1))

ltd_max_point(d) == At(d, np_argmax(Column(d, 1)))

ltd_min_point(d) == At(d, np_argmin(Column(d, 1)))

\* out[j + 1] = p: IndexError when the position is outside out.
ltd_store(o, j, p) ==
    IF j + 1 >= Len(o) THEN [err |-> "IndexError", out |-> o]
    ELSE [err |-> "none", out |-> Put(o, j + 1, p)]

\* One iteration of the selection loop of ltd for bucket j: the exception
\* raised ("none" when none is) and out after the body.  The mean of an
\* empty next_bin is not a number, which makes every area not a number and
\* np.argmax return 0; np.argmax of the areas of an empty this_bin raises
\* ValueError.
ltd_iter(d, n, bins, o, j) ==
    LET this_bin == At(bins, j)
        n_bins == n - 2
        max_point == ltd_max_point(d)
        min_point == ltd_min_point(d)
    IN  IF InList(max_point, this_bin)
            THEN ltd_store(o, j, max_point)
        ELSE IF InList(min_point, this_bin)
            THEN ltd_store(o, j, min_point)
        ELSE IF j < n_bins - 1 /\ j + 1 >= Len(bins)
            THEN [err |-> "IndexError", out |-> o]
        ELSE LET next_bin == IF j < n_bins - 1 THEN At(bins, j + 1)
                             ELSE SubSeq(d, Len(d), Len(d))
                 pre_point == At(o, j)
                 next_point == mean(next_bin)
                 areas == ltd_area_of_triangles(this_bin, pre_point, next_point)
             IN  IF Len(this_bin) = 0 THEN [err |-> "ValueError", out |-> o]
                 ELSE IF Len(next_bin) = 0
                     THEN ltd_store(o, j, At(this_bin, 0))
                 ELSE ltd_store(o, j, At(this_bin, np_argmax(areas)))

(***************************************************************************)
(* The calls the model makes.                                              *)
(***************************************************************************)
\* x columns of length len: strictly increasing, with one repeated value
\* (x[j] = x[j+1]), or with one descent (x[j] > x[j+1]).
XStrict(len) == [k \in 1..len |-> k]

XRepeat(len, j) == [k \in 1..len |-> IF k <= j THEN k ELSE k - 1]

XDescent(len, j) ==
    [k \in 1..len |-> IF k = j THEN j + 1 ELSE IF k = j + 1 THEN j ELSE k]

XColumns(len) ==
    {XStrict(len)} \cup {XRepeat(len, j) : j \in 1..(len - 1)}
                   \cup {XDescent(len, j) : j \in 1..(len - 1)}

\* Lengths around the point where the refinement loop gains a pass:
\* int(len / (n * 10)) is k at 10 * n * k and k - 1 one row below.
BigLens(n) ==
    {IterDivisor * n * k - below : k \in 1..MaxIter, below \in 0..1}

\* Positions (1-based rows) of a large series that may carry a spike: its
\* two ends and Slots evenly spaced interior rows.
SpikePos(len) ==
    {1, len} \cup {2 + j * ((len - 2) \div Slots) : j \in 0..(Slots - 1)}

\* The arguments of a call.
Call(d, n) ==
    /\ data = d
    /\ n_out = n

\* Small calls: every 2-column series of 1..MaxLen rows with one of the x
\* columns above and y values in 0..MaxY, with every n_out from 0 to one more
\* than its length.
SmallCall ==
    \E len \in 1..MaxLen, n \in 0..(MaxLen + 1) :
        /\ n <= len + 1
        /\ \E xs \in XColumns(len), ys \in [1..len -> 0..MaxY] :
              Call(Array([k \in 1..len |-> <<xs[k], ys[k]>>]), n)

\* Calls with a 3-column array.
WideCall ==
    \E len \in 1..MaxLen, n \in 0..(MaxLen + 1) :
        /\ n <= len + 1
        /\ Call(Array([k \in 1..len |-> <<k, 0, 0>>]), n)

\* Large calls: n_out in 3..MaxBigOut, a series long enough for 1..MaxIter
\* refinement passes or one row short of it, with x = 1, 2, ..., len and
\* y = 1 except for one maximum (2) at row a and one minimum (0) at row b.
BigCall ==
    \E n \in MinOut..MaxBigOut :
        \E len \in BigLens(n) :
            \E a, b \in SpikePos(len) :
                /\ a # b
                /\ Call(Array([k \in 1..len |->
                       <<k, IF k = a THEN 2 ELSE IF k = b THEN 0 ELSE 1>>]), n)

Init ==
    /\ fn \in {"lttb", "ltd"}
    /\ (SmallCall \/ WideCall \/ BigCall)
    /\ pc = "call"
    /\ result = "pending"
    /\ data_bins = <<>>
    /\ sse_list = <<>>
    /\ curr_iteration = 0
    /\ max_index = None
    /\ min_index = None
    /\ out = <<>>
    /\ i = 0

\* How a call ends for each outcome of the validation.
Validated(v) ==
    /\ pc' = IF v = "Valid" THEN "split" ELSE "done"
    /\ result' = IF v = "Valid" THEN "pending"
                 ELSE IF v = "Identity" THEN "returned" ELSE v
    /\ out' = IF v = "Identity" THEN data ELSE out
    /\ UNCHANGED <<fn, data, n_out, data_bins, sse_list, curr_iteration,
                   max_index, min_index, i>>

(***************************************************************************)
(* lttb(data, n_out)                                                       *)
(***************************************************************************)
\* lttb.py 34-48
LttbValidate ==
    /\ fn = "lttb" /\ pc = "call"
    /\ Validated(lttb_validate(data, n_out))

\* lttb.py 50-62
LttbSplit ==
    /\ fn = "lttb" /\ pc = "split"
    /\ data_bins' = lttb_split(data, n_out)
    /\ out' = lttb_prepare_out(data, n_out)
    /\ i' = 0
    /\ pc' = "select"
    /\ UNCHANGED <<fn, data, n_out, result, sse_list, curr_iteration,
                   max_index, min_index>>

\* lttb.py 68-87, one iteration
LttbIter ==
    /\ fn = "lttb" /\ pc = "select"
    /\ i < Len(data_bins)
    /\ out' = lttb_iter(data, n_out, data_bins, out, i)
    /\ i' = i + 1
    /\ UNCHANGED <<fn, data, n_out, pc, result, data_bins, sse_list,
                   curr_iteration, max_index, min_index>>

\* lttb.py 89
LttbReturn ==
    /\ fn = "lttb" /\ pc = "select"
    /\ i >= Len(data_bins)
    /\ result' = "returned"
    /\ pc' = "done"
    /\ UNCHANGED <<fn, data, n_out, data_bins, sse_list, curr_iteration,
                   max_index, min_index, out, i>>

(***************************************************************************)
(* ltd(data, n_out)                                                        *)
(***************************************************************************)
\* ltd.py 118-132
LtdValidate ==
    /\ fn = "ltd" /\ pc = "call"
    /\ Validated(ltd_validate(data, n_out))

\* ltd.py 136-137, 22-25: the call of _split_data up to its loop
LtdSplit ==
    /\ fn = "ltd" /\ pc = "split"
    /\ data_bins' = ltd_split(data, n_out)
    /\ curr_iteration' = 1
    /\ pc' = "refine"
    /\ UNCHANGED <<fn, data, n_out, result, sse_list, max_index, min_index,
                   out, i>>

\* What one pass of the loop of _split_data (ltd.py 27-47) can end with: an
\* exception of the scoring loop, or the buckets _resize_bins makes for the
\* targets the scores give.
PassOutcomes(d, bins) ==
    {[err |-> e, bins |-> bins, max_index |-> None, min_index |-> None] :
        e \in ScoreErrors(d, bins)}
    \cup {[err |-> "none", bins |-> _resize_bins(bins, t[1], t[2]),
           max_index |-> t[1], min_index |-> t[2]] :
             t \in SplitMergeTargets(bins)}

\* ltd.py 26-47, one pass
LtdRefine ==
    /\ fn = "ltd" /\ pc = "refine"
    /\ curr_iteration <= iteration_num(data, n_out)
    /\ \E o \in PassOutcomes(data, data_bins) :
        /\ result' = IF o.err = "none" THEN result ELSE o.err
        /\ pc' = IF o.err = "none" THEN pc ELSE "done"
        /\ data_bins' = o.bins
        /\ max_index' = o.max_index
        /\ min_index' = o.min_index
        /\ curr_iteration' = IF o.err = "none" THEN curr_iteration + 1
                             ELSE curr_iteration
    /\ UNCHANGED <<fn, data, n_out, sse_list, out, i>>

\* ltd.py 26, 48, 139-147: the loop of _split_data ends, ltd prepares out
LtdPrepare ==
    /\ fn = "ltd" /\ pc = "refine"
    /\ curr_iteration > iteration_num(data, n_out)
    /\ out' = ltd_prepare_out(data, n_out)
    /\ i' = 0
    /\ pc' = "select"
    /\ UNCHANGED <<fn, data, n_out, result, data_bins, sse_list,
                   curr_iteration, max_index, min_index>>

\* ltd.py 152-171, one iteration
LtdIter ==
    /\ fn = "ltd" /\ pc = "select"
    /\ i < Len(data_bins)
    /\ LET r == ltd_iter(data, n_out, data_bins, out, i)
       IN  /\ out' = r.out
           /\ result' = IF r.err = "none" THEN result ELSE r.err
           /\ pc' = IF r.err = "none" THEN pc ELSE "done"
           /\ i' = IF r.err = "none" THEN i + 1 ELSE i
    /\ UNCHANGED <<fn, data, n_out, data_bins, sse_list, curr_iteration,
                   max_index, min_index>>

\* ltd.py 173
LtdReturn ==
    /\ fn = "ltd" /\ pc = "select"
    /\ i >= Len(data_bins)
    /\ result' = "returned"
    /\ pc' = "done"
    /\ UNCHANGED <<fn, data, n_out, data_bins, sse_list, curr_iteration,
                   max_index, min_index, out, i>>

Next ==
    \/ LttbValidate
    \/ LttbSplit
    \/ LttbIter
    \/ LttbReturn
    \/ LtdValidate
    \/ LtdSplit
    \/ LtdRefine
    \/ LtdPrepare
    \/ LtdIter
    \/ LtdReturn

Spec == Init /\ [][Next]_vars

(***************************************************************************)
(* _find_max_bin on its own: every bucket list of 1..MaxBins buckets of    *)
(* 1..MaxBinLen points with every score list of the same length.           *)
(***************************************************************************)
FindBuckets == {Array([k \in 1..len |-> <<k, 0>>]) : len \in 1..MaxBinLen}

FindBinLists == UNION {[1..len -> FindBuckets] : len \in 1..MaxBins}

InitFind ==
    /\ fn = "ltd"
    /\ data = <<>>
    /\ n_out = 0
    /\ pc = "find"
    /\ result = "pending"
    /\ data_bins \in FindBinLists
    /\ sse_list \in [1..Len(data_bins) -> 0..MaxScore]
    /\ curr_iteration = 0
    /\ max_index = None
    /\ min_index = None
    /\ out = <<>>
    /\ i = 0

\* ltd.py 83: max_index = _find_max_bin(data_bins, sse_list)
FindMaxBin ==
    /\ pc = "find"
    /\ \E mx \in _find_max_bin(data_bins, sse_list) : max_index' = mx
    /\ pc' = "found"
    /\ UNCHANGED <<fn, data, n_out, result, data_bins, sse_list,
                   curr_iteration, min_index, out, i>>

NextFind == FindMaxBin

SpecFind == InitFind /\ [][NextFind]_vars

(***************************************************************************)
(* Properties.                                                             *)
(***************************************************************************)
TwoColumns == \A k \in 1..Len(data) : Len(data[k]) = 2

NonDecreasingX == \A k \in 1..(Len(data) - 1) : At(data[k], 0) <= At(data[k + 1], 0)

StrictX == \A k \in 1..(Len(data) - 1) : At(data[k], 0) < At(data[k + 1], 0)

RepeatedX == \E k \in 1..(Len(data) - 1) : At(data[k], 0) = At(data[k + 1], 0)

\* A call the validation of the code lets through: x sorted.
SortedCall == TwoColumns /\ NonDecreasingX /\ 3 <= n_out /\ n_out <= Len(data)

\* A call with a series of the spec's data model: x strictly increasing.
StrictCall == SortedCall /\ StrictX

Returned == pc = "done" /\ result = "returned"

\* The interior of the series: data without its first and last row.
Interior == SubSeq(data, 2, Len(data) - 1)

RECURSIVE Concat(_)
Concat(ss) == IF Len(ss) = 0 THEN <<>> ELSE ss[1] \o Concat(Tail(ss))

\* The first row of the series with the largest y, and the first with the
\* smallest.
GlobalMax ==
    data[CHOOSE k \in 1..Len(data) :
            /\ \A j \in 1..Len(data) : At(data[j], 1) <= At(data[k], 1)
            /\ \A j \in 1..(k - 1) : At(data[j], 1) < At(data[k], 1)]

GlobalMin ==
    data[CHOOSE k \in 1..Len(data) :
            /\ \A j \in 1..Len(data) : At(data[j], 1) >= At(data[k], 1)
            /\ \A j \in 1..(k - 1) : At(data[j], 1) > At(data[k], 1)]

\* C1: every valid call (2 columns, x sorted, 3 <= n_out <= N) of either
\* variant returns normally, with exactly n_out points.
C1_ReturnsNOutPoints ==
    (pc = "done" /\ SortedCall) => (result = "returned" /\ Len(out) = n_out)

C3_BucketsPartitionInterior ==
    (fn = "ltd" /\ StrictCall /\ pc \in {"refine", "select"}) =>
        /\ Len(data_bins) = n_out - 2
        /\ \A k \in 1..Len(data_bins) : Len(data_bins[k]) > 0
        /\ Concat(data_bins) = Interior

C5_TooFew ==
    (pc = "done" /\ TwoColumns /\ NonDecreasingX /\ n_out < 3 /\ n_out <= Len(data))
        => result = "TooFew"

\* The static variant's result, for C6.
StaticResult == IF n_out = Len(data) THEN data ELSE lttb_result(data, n_out)

\* C6: for a valid call with N < 10 * n_out the dynamic variant makes no
\* refinement pass (_resize_bins never runs), its buckets are the static
\* split, and it returns what the static variant returns.
C6_NoPassEqualsStatic ==
    (fn = "ltd" /\ SortedCall /\ Len(data) < 10 * n_out) =>
        /\ max_index = None /\ min_index = None /\ curr_iteration <= 1
        /\ pc = "select" => data_bins = array_split(Interior, n_out - 2)
        /\ pc = "done" => (result = "returned" /\ out = StaticResult)

\* C6's case: a returned dynamic call on a short series in which a bucket of
\* several points holds neither extremum, so its point is chosen by area.
C6_Witness ==
    /\ fn = "ltd" /\ SortedCall /\ Len(data) < 10 * n_out /\ n_out < Len(data)
    /\ Returned
    /\ \E k \in 1..Len(data_bins) :
          /\ Len(data_bins[k]) >= 2
          /\ ~InList(GlobalMax, data_bins[k])
          /\ ~InList(GlobalMin, data_bins[k])

\* C7, as stated: a 2-column series in which two consecutive rows share x and
\* no x is smaller than its predecessor fails with NotSorted.
C7_StrictlyIncreasingEnforced ==
    (pc = "done" /\ TwoColumns /\ RepeatedX /\ NonDecreasingX)
        => result = "NotSorted"

\* C7, amended: validation enforces non-decreasing x only.  A call with a
\* 2-column series ends with NotSorted exactly when some x is smaller than
\* its predecessor.
C7_NonDecreasingEnforced ==
    (pc = "done" /\ TwoColumns) =>
        (result = "NotSorted" <=> ~NonDecreasingX)

\* C7's case: a series with a repeated x passes validation and the call
\* returns a down-sampled series.
C7_Witness ==
    /\ TwoColumns /\ RepeatedX /\ NonDecreasingX
    /\ n_out < Len(data)
    /\ Returned

\* Twice the area of the triangle (p, b, mean of nb), times len(nb).
TriangleArea(p, b, nb) ==
    LET sx == SumSeq([k \in 1..Len(nb) |-> nb[k][1]])
        sy == SumSeq([k \in 1..Len(nb) |-> nb[k][2]])
        m == Len(nb)
    IN  Abs((m * p[1] - sx) * (b[2] - p[2]) - (p[1] - b[1]) * (sy - m * p[2]))

\* The first point of bucket bin with the largest triangle area.
FirstLargest(bin, p, nb) ==
    bin[CHOOSE k \in 1..Len(bin) :
            /\ \A j \in 1..Len(bin) :
                  TriangleArea(p, bin[j], nb) <= TriangleArea(p, bin[k], nb)
            /\ \A j \in 1..(k - 1) :
                  TriangleArea(p, bin[j], nb) < TriangleArea(p, bin[k], nb)]

\* C8: in the selection loop of both variants, the point written for a
\* bucket that holds neither extremum is the first point of the bucket with
\* the largest triangle area, the triangle's other corners being the point
\* written just before and the mean of the next bucket (the last row of the
\* series for the final bucket).
C8_FirstLargestTriangle ==
    (StrictCall /\ n_out < Len(data) /\ (pc = "select" \/ Returned)) =>
        \A b \in 1..Len(data_bins) :
            (/\ b <= i
             /\ ~InList(GlobalMax, data_bins[b])
             /\ ~InList(GlobalMin, data_bins[b]))
            => out[b + 1] = FirstLargest(data_bins[b], out[b],
                                IF b = Len(data_bins) THEN <<data[Len(data)]>>
                                ELSE data_bins[b + 1])

\* C9: _find_max_bin returns the highest-scoring bucket among those of at
\* least two points and, when there is none, the highest-scoring bucket.
C9_SplitTarget ==
    pc = "found" =>
        LET Big == {k \in 1..Len(data_bins) : Len(data_bins[k]) >= 2}
            Among == IF Big = {} THEN 1..Len(data_bins) ELSE Big
        IN  /\ (max_index + 1) \in Among
            /\ \A k \in Among : sse_list[k] <= sse_list[max_index + 1]

\* C10: for a valid call with strictly increasing x and n_out < N, every
\* returned point is a row of the series and the returned x values are
\* strictly increasing.
C10_OrderPreservingSelection ==
    (Returned /\ StrictCall /\ n_out < Len(data)) =>
        /\ \A k \in 1..Len(out) : InList(out[k], data)
        /\ \A k \in 1..(Len(out) - 1) : At(out[k], 0) < At(out[k + 1], 0)

=============================================================================
